---- MODULE Spec2Model ----
(***************************************************************************)
(* Model of the LCDM cosmic expansion model of light-cone-calc             *)
(* (src/src/model.ts): parameter construction, the integration engine and  *)
(* the result assembler.                                                   *)
(*                                                                         *)
(* Numbers.  A JavaScript number is modelled as a pair <<n, d>>: the exact *)
(* rational n/d when d > 0 (lowest terms), +Infinity as <<1, 0>>,          *)
(* -Infinity as <<-1, 0>> and NaN as <<0, 0>>.  The arithmetic operators   *)
(* follow the IEEE rules for the special values (0 * Infinity = NaN,       *)
(* Infinity / Infinity = NaN, x / 0 = +-Infinity, ...).  Rounding and the  *)
(* sign of zero are not modelled.                                          *)
(***************************************************************************)
EXTENDS Integers, Sequences, FiniteSets, TLC

VARIABLES
    options,        \* the options bag handed to create()
    props,          \* this.props of the model instance
    quadErr,        \* per-segment error of the quadrature primitive
    quadMode,       \* what the primitive does with a non-ascending segment
    callerStretch,  \* the caller's stretch array as the last call left it
    lastOp,         \* the entry point called last
    lastArg,        \* the stretch list the last call was given
    stretchUsed,    \* the list handed to calculateExpansionForStretchValues
    quadPoints,     \* the breakpoints handed to numerical.quad for TH
    isInfIncluded,  \* isInfinityIncluded of the last call
    accum,          \* per emitted point: s, running th and ths, reads
    totals,         \* thAtOne, thAtInfinity, thsAtInfinity of the last call
    results,        \* the ExpansionResult list returned last
    age,            \* what the last call returned, if it was calculateAge()
    carried,        \* running sums the last accumulation loop ended with
    refArg,         \* a remembered calculateExpansion input
    refResults,     \* the output of the remembered call
    refFresh        \* the remembered call is the last call

vars == <<options, props, quadErr, quadMode, callerStretch, lastOp, lastArg,
          stretchUsed, quadPoints, isInfIncluded, accum, totals, results,
          age, carried, refArg, refResults, refFresh>>

callVars == <<callerStretch, lastOp, lastArg, stretchUsed, quadPoints,
              isInfIncluded, accum, totals, results, age, carried, refArg,
              refResults, refFresh>>

----------------------------------------------------------------------------
(* Bounds *)

MaxLen == 2
MaxOverrides == 1

----------------------------------------------------------------------------
(* JavaScript numbers *)

Zero == <<0, 1>>
One == <<1, 1>>
Infinity == <<1, 0>>
NegInfinity == <<-1, 0>>
NaN == <<0, 0>>

AbsInt(x) == IF x < 0 THEN -x ELSE x

SignInt(x) == IF x < 0 THEN -1 ELSE IF x > 0 THEN 1 ELSE 0

RECURSIVE GCD(_, _)
GCD(a, b) == IF b = 0 THEN a ELSE GCD(b, a % b)

Rat(n, d) ==
    IF d = 0 THEN <<SignInt(n), 0>>
    ELSE LET g == GCD(AbsInt(n), AbsInt(d))
             sg == IF d < 0 THEN -1 ELSE 1
         IN  <<(sg * n) \div g, (sg * d) \div g>>

IsNaN(x) == x = NaN

IsFinite(x) == x[2] # 0

Neg(x) == <<-x[1], x[2]>>

Add(x, y) ==
    IF IsNaN(x) \/ IsNaN(y) THEN NaN
    ELSE IF x[2] = 0 /\ y[2] = 0 THEN (IF x = y THEN x ELSE NaN)
    ELSE IF x[2] = 0 THEN x
    ELSE IF y[2] = 0 THEN y
    ELSE Rat(x[1] * y[2] + y[1] * x[2], x[2] * y[2])

Sub(x, y) == Add(x, Neg(y))

Mul(x, y) == Rat(x[1] * y[1], x[2] * y[2])

Recip(x) == Rat(x[2], x[1])

Div(x, y) == Mul(x, Recip(y))

Abs(x) == <<AbsInt(x[1]), x[2]>>

Less(x, y) ==
    IF IsNaN(x) \/ IsNaN(y) THEN FALSE
    ELSE IF x[2] = 0 /\ y[2] = 0 THEN x[1] < y[1]
    ELSE x[1] * y[2] < y[1] * x[2]

LessEq(x, y) == ~IsNaN(x) /\ ~IsNaN(y) /\ ~Less(y, x)

ISqrt(n) == CHOOSE k \in 0..n : k * k <= n /\ (k + 1) * (k + 1) > n

\* Math.sqrt: NaN below zero, Infinity at Infinity, otherwise the root of
\* n/d = (n*d)/d^2 with the integer root of n*d (exact on perfect squares).
Sqrt(x) ==
    IF IsNaN(x) \/ x[1] < 0 THEN NaN
    ELSE IF x[2] = 0 THEN Infinity
    ELSE Rat(ISqrt(x[1] * x[2]), x[2])

\* The sum of the first n entries of q, added left to right
RECURSIVE SumFirst(_, _)
SumFirst(q, n) == IF n = 0 THEN Zero ELSE Add(SumFirst(q, n - 1), q[n])

SumSeq(q) == SumFirst(q, Len(q))

RECURSIVE Reverse(_)
Reverse(q) == IF q = <<>> THEN <<>> ELSE Append(Reverse(Tail(q)), Head(q))

----------------------------------------------------------------------------
(* Configuration data: physical-constants.js and survey-parameters.js.     *)
(* These files hold plain data; the tables below are small stand-ins with  *)
(* the same keys and exactly representable values.                         *)

physicalConstants ==
    [kmsmpscToGyr |-> <<1, 2>>, gyrToSeconds |-> <<2, 1>>,
     rhoConst |-> <<3, 1>>, temperature0 |-> <<3, 1>>]

surveyParameters ==
    [planck2018 |-> [h0 |-> <<2, 1>>, omega0 |-> <<1, 1>>,
                     omegaLambda0 |-> <<1, 2>>, zeq |-> <<1, 1>>],
     planck2015 |-> [h0 |-> <<3, 1>>, omega0 |-> <<1, 1>>,
                     omegaLambda0 |-> <<1, 4>>, zeq |-> <<2, 1>>],
     wmap2013   |-> [h0 |-> <<1, 1>>, omega0 |-> <<1, 1>>,
                     omegaLambda0 |-> <<1, 2>>, zeq |-> <<3, 1>>,
                     temperature0 |-> <<4, 1>>]]

RecognisedKeys ==
    {"h0", "omega0", "omegaLambda0", "zeq", "temperature0", "kmsmpscToGyr",
     "gyrToSeconds", "rhoConst"}

DerivedKeys == {"h0Gy", "rhoCrit0", "omegaM0", "omegaRad0", "OmegaK0"}

----------------------------------------------------------------------------
(* createProps *)

\* Object spread { ...a, ...b }: the later object wins key by key.
Spread(a, b) ==
    [k \in DOMAIN a \cup DOMAIN b |-> IF k \in DOMAIN b THEN b[k] ELSE a[k]]

\* options.survey && surveyParameters[options.survey] ? ... : planck2018
SelectSurvey(opts) ==
    IF "survey" \in DOMAIN opts /\ opts["survey"] \in DOMAIN surveyParameters
    THEN surveyParameters[opts["survey"]]
    ELSE surveyParameters["planck2018"]

MergedPropsSurveyLast(opts) ==
    Spread(Spread(physicalConstants, opts), SelectSurvey(opts))

\* const props = { ...physicalConstants, ...survey, ...options }
MergedProps(opts) ==
    Spread(Spread(physicalConstants, SelectSurvey(opts)), opts)

DerivedProps(p) ==
    LET h0Gy == Mul(p["h0"], p["kmsmpscToGyr"])
        seq == Add(p["zeq"], One)
        h0Seconds == Div(Mul(p["h0"], p["kmsmpscToGyr"]), p["gyrToSeconds"])
        rhoCrit0 == Mul(Mul(p["rhoConst"], h0Seconds), h0Seconds)
        omegaM0 == Div(Mul(Sub(p["omega0"], p["omegaLambda0"]), seq),
                       Add(seq, One))
        omegaRad0 == Div(omegaM0, seq)
        OmegaK0 == Sub(Sub(Sub(One, omegaM0), omegaRad0), p["omegaLambda0"])
    IN  [h0Gy |-> h0Gy, rhoCrit0 |-> rhoCrit0, omegaM0 |-> omegaM0,
         omegaRad0 |-> omegaRad0, OmegaK0 |-> OmegaK0]

\* return { h0Gy, rhoCrit0, omegaM0, omegaRad0, OmegaK0, ...props }
createProps(opts) ==
    LET merged == MergedProps(opts)
    IN  Spread(DerivedProps(merged), merged)

----------------------------------------------------------------------------
(* The option bags create() is given *)

SurveyKeys == {"planck2018", "planck2015", "wmap2013", "sdss"}

OverrideValues ==
    [h0 |-> {<<-2, 1>>, <<4, 1>>},
     omega0 |-> {<<2, 1>>, <<3, 4>>},
     omegaLambda0 |-> {<<1, 4>>, <<3, 4>>},
     zeq |-> {<<3, 1>>, <<0, 1>>},
     temperature0 |-> {<<5, 1>>, <<1, 1>>},
     kmsmpscToGyr |-> {<<1, 1>>, <<1, 4>>},
     gyrToSeconds |-> {<<4, 1>>, <<1, 1>>},
     rhoConst |-> {<<5, 1>>, <<1, 1>>},
     h0Gy |-> {<<7, 1>>, <<1, 3>>},
     rhoCrit0 |-> {<<7, 1>>, <<0, 1>>},
     omegaM0 |-> {<<1, 2>>, <<2, 1>>},
     omegaRad0 |-> {<<1, 2>>, <<0, 1>>},
     OmegaK0 |-> {<<-5, 1>>, <<1, 2>>}]

AllOverrideValues == UNION {OverrideValues[k] : k \in DOMAIN OverrideValues}

OverrideBags ==
    UNION {{f \in [K -> AllOverrideValues] :
                \A k \in K : f[k] \in OverrideValues[k]} :
           K \in {S \in SUBSET (DOMAIN OverrideValues) :
                      Cardinality(S) <= MaxOverrides}}

OptionBags ==
    OverrideBags \cup
    {Spread(b, [survey |-> sv]) : b \in OverrideBags, sv \in SurveyKeys}

----------------------------------------------------------------------------
(* getESquaredAtStretch, getVariablesAtStretch *)

\* omegaLambda0 + OmegaK0 * s2 + omegaM0 * s2 * s + omegaRad0 * s2 * s2
getESquaredAtStretch(p, s) ==
    LET s2 == Mul(s, s)
    IN  Add(Add(Add(p["omegaLambda0"], Mul(p["OmegaK0"], s2)),
                Mul(Mul(p["omegaM0"], s2), s)),
            Mul(Mul(p["omegaRad0"], s2), s2))

getVariablesAtStretch(p, s) ==
    LET eSquared == getESquaredAtStretch(p, s)
        s2 == Mul(s, s)
    IN  [h |-> Mul(p["h0"], Sqrt(eSquared)),
         omegaM |-> Div(Mul(Mul(p["omegaM0"], s2), s), eSquared),
         omegaLambda |-> Div(p["omegaLambda0"], eSquared),
         omegaRad |-> Div(Mul(Mul(p["omegaRad0"], s2), s2), eSquared),
         temperature |-> Mul(p["temperature0"], s),
         rhoCrit |-> Mul(p["rhoCrit0"], eSquared)]

----------------------------------------------------------------------------
(* The quadrature primitive numerical.quad of @rec-math/math, by its       *)
(* contract: one segment integral per consecutive pair of breakpoints and  *)
(* the grand total.  The integral of an ascending segment [a, b] is the    *)
(* difference of a fixed increasing table plus the primitive's error; a    *)
(* segment that is not ascending is outside the contract, and quadMode     *)
(* chooses between the two outcomes a quadrature rule can give for it.     *)

Half == <<1, 2>>
Two == <<2, 1>>

StretchPoints == {Half, One, Two, Infinity}

DescendingGrid == <<Infinity, Two, One, Half>>

QuadModes == {"signed", "magnitude"}

QuadErrors == {0, 1}

QuadCum(f, p) ==
    IF f = "TH"
    THEN (CASE p = Zero -> 0 [] p = Half -> 4 [] p = One -> 7
            [] p = Two -> 9 [] p = Infinity -> 10)
    ELSE (CASE p = Zero -> -20 [] p = Half -> 0 [] p = One -> 5
            [] p = Two -> 8 [] p = Infinity -> 9)

QuadSegment(f, a, b) ==
    IF a = b THEN Zero
    ELSE IF Less(a, b) THEN <<QuadCum(f, b) - QuadCum(f, a) + quadErr, 1>>
    ELSE IF quadMode = "signed"
         THEN <<-(QuadCum(f, a) - QuadCum(f, b) + quadErr), 1>>
         ELSE <<QuadCum(f, a) - QuadCum(f, b) + quadErr, 1>>

\* [total, { points: [[segment, diagnostics], ...] }]; a call with exactly
\* two breakpoints returns [value, diagnostics] with no points list.
RECURSIVE QuadSegments(_, _)
QuadSegments(f, points) ==
    IF Len(points) < 2 THEN <<>>
    ELSE <<QuadSegment(f, points[1], points[2])>>
         \o QuadSegments(f, Tail(points))

Quad(f, points) ==
    LET segs == QuadSegments(f, points)
    IN  [total |-> SumSeq(segs), hasPoints |-> Len(segs) # 1,
         points |-> IF Len(segs) # 1 THEN segs ELSE <<>>]

----------------------------------------------------------------------------
(* calculateExpansionForStretchValues *)

\* stretchValues.slice().reverse(): the copy is reversed, the caller's
\* array stays as it was.
SliceReverse(stretchValues) ==
    [copy |-> Reverse(stretchValues), caller |-> stretchValues]

\* const isInfinityIncluded = sPoints[sPoints.length - 1] === infty
IsInfinityIncluded(sPoints) ==
    Len(sPoints) > 0 /\ sPoints[Len(sPoints)] = Infinity

\* push(infty) unless included, then unshift(0)
Breakpoints(reversed) ==
    <<Zero>> \o (IF IsInfinityIncluded(reversed) THEN reversed
                 ELSE Append(reversed, Infinity))

SegmentPointsListOnly(res) == res.points

\* thResults[1].points || [thResults], keeping each entry's [0]
SegmentPoints(res) == IF res.hasPoints THEN res.points ELSE <<res.total>>

ThsPointsUnpadded(thsResults) == SegmentPoints(thsResults)

\* thsPoints.unshift([0, { steps: 0, errorEstimate: 0, depth: 0 }])
ThsPoints(thsResults) == <<Zero>> \o SegmentPoints(thsResults)

StartSumsCarried(previous) == previous

\* let th = 0; let ths = 0: nothing is carried over from an earlier call.
StartSums(previous) == [th |-> Zero, ths |-> Zero]

\* i < sPoints.length - (isInfinityIncluded ? 0 : 1), sPoints without the 0
LoopCount(sPoints, included) == Len(sPoints) - (IF included THEN 0 ELSE 1)

\* thPoints[i][0]; reading past the end of the list is recorded in oob.
ReadPoint(list, i) == IF i \in 1..Len(list) THEN list[i] ELSE NaN

\* The loop up to index i: th += thPoints[i][0]; ths += thsPoints[i][0];
\* s = sPoints[i]
RECURSIVE Accumulate(_, _, _, _, _)
Accumulate(sPoints, thPoints, thsPoints, i, start) ==
    IF i = 0 THEN <<>>
    ELSE LET before == Accumulate(sPoints, thPoints, thsPoints, i - 1, start)
             prev == IF i = 1 THEN start ELSE before[i - 1]
         IN  Append(before,
                    [s |-> sPoints[i],
                     th |-> Add(prev.th, ReadPoint(thPoints, i)),
                     ths |-> Add(prev.ths, ReadPoint(thsPoints, i)),
                     oob |-> i > Len(thPoints) \/ i > Len(thsPoints)])

TimeAtReversed(thsAtInfinity, ths, h0Gy) ==
    Div(Sub(ths, thsAtInfinity), h0Gy)

\* t: (thsAtInfinity - ths) / h0Gy
TimeAt(thsAtInfinity, ths, h0Gy) == Div(Sub(thsAtInfinity, ths), h0Gy)

IntegrationResult(sums, tot, h0Gy) ==
    [s |-> sums.s,
     t |-> TimeAt(tot.thsAtInfinity, sums.ths, h0Gy),
     dNow |-> Div(Abs(Sub(sums.th, tot.thAtOne)), h0Gy),
     dPar |-> Div(Div(Sub(tot.thAtInfinity, sums.th), sums.s), h0Gy)]

\* results.push({ s, t, dNow, dPar }) for each loop index
RECURSIVE Emit(_, _, _, _)
Emit(sums, tot, h0Gy, i) ==
    IF i = 0 THEN <<>>
    ELSE Append(Emit(sums, tot, h0Gy, i - 1),
                IntegrationResult(sums[i], tot, h0Gy))

calculateExpansionForStretchValues(p, stretchValues, start) ==
    LET sliced == SliceReverse(stretchValues)
        included == IsInfinityIncluded(sliced.copy)
        quadIn == Breakpoints(sliced.copy)
        thResults == Quad("TH", quadIn)
        thPoints == SegmentPoints(thResults)
        thsResults == Quad("THs", Tail(quadIn))
        thsPoints == ThsPoints(thsResults)
        tot == [thAtOne |-> Quad("TH", <<Zero, One>>).total,
                thAtInfinity |-> thResults.total,
                thsAtInfinity |-> thsResults.total]
        sPoints == Tail(quadIn)
        count == LoopCount(sPoints, included)
        sums == Accumulate(sPoints, thPoints, thsPoints, count, start)
    IN  [caller |-> sliced.caller,
         quadPoints |-> quadIn,
         included |-> included,
         totals |-> tot,
         accum |-> sums,
         results |-> Emit(sums, tot, p["h0Gy"], count),
         final |-> IF count = 0 THEN start
                   ELSE [th |-> sums[count].th, ths |-> sums[count].ths]]

----------------------------------------------------------------------------
(* createExpansionResults *)

UnforcedDNow(s, dUnsafe) == dUnsafe

\* const dNow = s === 1 ? 0 : dUnsafe
ForcedDNow(s, dUnsafe) == IF s = One THEN Zero ELSE dUnsafe

ExpansionResult(p, r) ==
    LET s == r.s
        params == getVariablesAtStretch(p, s)
        hGy == Mul(params.h, p["kmsmpscToGyr"])
        dNow == ForcedDNow(s, r.dNow)
    IN  [z |-> Sub(s, One), a |-> Div(One, s), s |-> s, t |-> r.t,
         dNow |-> dNow, d |-> Div(dNow, s), r |-> Div(One, hGy),
         dPar |-> r.dPar, vGen |-> Div(params.h, Mul(s, p["h0"])),
         vNow |-> Mul(dNow, p["h0Gy"]), v |-> Div(Mul(dNow, hGy), s),
         h |-> params.h, omegaM |-> params.omegaM,
         omegaLambda |-> params.omegaLambda, omegaRad |-> params.omegaRad,
         temperature |-> params.temperature, rhoCrit |-> params.rhoCrit]

\* for (let i = integrationResults.length - 1; i >= 0; --i) results.push(..)
createExpansionResultsForward(p, integrationResults) ==
    [i \in 1..Len(integrationResults) |->
       ExpansionResult(p, integrationResults[i])]

RECURSIVE AssembleFrom(_, _, _)
AssembleFrom(p, integrationResults, i) ==
    IF i = 0 THEN <<>>
    ELSE <<ExpansionResult(p, integrationResults[i])>>
         \o AssembleFrom(p, integrationResults, i - 1)

createExpansionResults(p, integrationResults) ==
    AssembleFrom(p, integrationResults, Len(integrationResults))

----------------------------------------------------------------------------
(* getStretchValues of stretch-range.js, by its contract: a finite         *)
(* descending list of stretch values covering the requested range.         *)

getStretchValues(stretch) ==
    LET hi == IF Less(stretch[1], stretch[2]) THEN stretch[2] ELSE stretch[1]
        lo == IF Less(stretch[1], stretch[2]) THEN stretch[1] ELSE stretch[2]
        InRange(x) == LessEq(lo, x) /\ LessEq(x, hi)
    IN  SelectSeq(DescendingGrid, InRange)

----------------------------------------------------------------------------
(* Inputs *)

RECURSIVE ListsOfLen(_)
ListsOfLen(n) ==
    IF n = 0 THEN {<<>>}
    ELSE {Append(l, x) : l \in ListsOfLen(n - 1), x \in StretchPoints}

StretchLists == UNION {ListsOfLen(n) : n \in 0..MaxLen}

\* inputs.stretch of calculateExpansion: one point, or [upper, lower]
ExpansionInputs ==
    ListsOfLen(1) \cup {l \in ListsOfLen(2) : Less(l[2], l[1])}

EmptyBag == [k \in {} |-> Zero]

ModelConfigs == {EmptyBag, [h0 |-> <<-2, 1>>], [zeq |-> <<-1, 1>>]}

NoAge == <<>>

----------------------------------------------------------------------------
(* Operations *)

Idle ==
    /\ callerStretch = <<>>
    /\ lastOp = "none"
    /\ lastArg = <<>>
    /\ stretchUsed = <<>>
    /\ quadPoints = <<>>
    /\ isInfIncluded = FALSE
    /\ accum = <<>>
    /\ totals = [thAtOne |-> Zero, thAtInfinity |-> Zero,
                 thsAtInfinity |-> Zero]
    /\ results = <<>>
    /\ age = NoAge
    /\ carried = [th |-> Zero, ths |-> Zero]
    /\ refArg = <<>>
    /\ refResults = <<>>
    /\ refFresh = FALSE

\* create(options) for the configurations the calculations run on
Init ==
    /\ options \in ModelConfigs
    /\ props = createProps(options)
    /\ quadErr \in QuadErrors
    /\ quadMode \in QuadModes
    /\ Idle

Engine(run, op, arg, used) ==
    /\ lastOp' = op
    /\ lastArg' = arg
    /\ stretchUsed' = used
    /\ quadPoints' = run.quadPoints
    /\ isInfIncluded' = run.included
    /\ accum' = run.accum
    /\ totals' = run.totals
    /\ carried' = run.final

\* A caller running the two stages itself on an explicit list
CalculateForStretchValues(list) ==
    \E run \in {calculateExpansionForStretchValues(props, list,
                                                    StartSums(carried))} :
        /\ Engine(run, "stretchValues", list, list)
        /\ callerStretch' = run.caller
        /\ results' = createExpansionResults(props, run.results)
        /\ age' = NoAge
        /\ refFresh' = FALSE
        /\ UNCHANGED <<options, props, quadErr, quadMode, refArg, refResults>>

\* inputs.stretch.length === 1 ? inputs.stretch : getStretchValues(inputs)
StretchValuesFor(stretch) ==
    IF Len(stretch) = 1 THEN stretch ELSE getStretchValues(stretch)

CalculateExpansion(stretch, remember) ==
    \E run \in {calculateExpansionForStretchValues(
                    props, StretchValuesFor(stretch), StartSums(carried))} :
    \E out \in {createExpansionResults(props, run.results)} :
        /\ Engine(run, "calculateExpansion", stretch,
                  StretchValuesFor(stretch))
        /\ callerStretch' = IF Len(stretch) = 1 THEN run.caller ELSE stretch
        /\ results' = out
        /\ IF remember
           THEN refArg' = stretch /\ refResults' = out
           ELSE UNCHANGED <<refArg, refResults>>
        /\ refFresh' = remember
        /\ age' = NoAge
        /\ UNCHANGED <<options, props, quadErr, quadMode>>

CalculateAge ==
    \E run \in {calculateExpansionForStretchValues(props, <<One>>,
                                                    StartSums(carried))} :
        /\ Engine(run, "calculateAge", <<One>>, <<One>>)
        /\ callerStretch' = run.caller
        /\ age' = run.results[1].t
        /\ results' = <<>>
        /\ refFresh' = FALSE
        /\ UNCHANGED <<options, props, quadErr, quadMode, refArg, refResults>>

Next ==
    \/ \E list \in StretchLists : CalculateForStretchValues(list)
    \/ \E stretch \in ExpansionInputs : CalculateExpansion(stretch, FALSE)
    \/ CalculateAge

Spec == Init /\ [][Next]_vars

----------------------------------------------------------------------------
(* Repeated calls on one instance: a call may be remembered and compared   *)
(* with later calls on the same input.                                     *)

NextCalls ==
    \/ \E stretch \in ExpansionInputs, remember \in BOOLEAN :
           CalculateExpansion(stretch, remember)
    \/ CalculateAge

SpecCalls == Init /\ [][NextCalls]_vars

----------------------------------------------------------------------------
(* Construction on its own: create() over the option bags *)

NotCreated == <<>>

\* create(options): new CosmicExpansionModel(options)
Create ==
    /\ props = NotCreated
    /\ props' = createProps(options)
    /\ UNCHANGED <<options, quadErr, quadMode>>
    /\ UNCHANGED callVars

InitProps ==
    /\ options \in OptionBags
    /\ props = NotCreated
    /\ quadErr = 0
    /\ quadMode = "signed"
    /\ Idle

NextProps == Create

SpecProps == InitProps /\ [][NextProps]_vars

----------------------------------------------------------------------------
(* Properties *)

Tabulated == lastOp \in {"stretchValues", "calculateExpansion"}

\* The accumulation entry behind results[i]: the table is emitted in the
\* reverse of the accumulation order.
AccumOf(i) == accum[Len(results) + 1 - i]

\* C1: running calculateExpansionForStretchValues and then
\* createExpansionResults on any stretch list (descending, unsorted, with or
\* without +Infinity) returns one result per requested value, and the s
\* fields are the requested list, element for element, in the caller's order.
OrderPreserved ==
    Tabulated =>
        /\ Len(results) = Len(stretchUsed)
        /\ \A i \in 1..Len(stretchUsed) : results[i].s = stretchUsed[i]

OrderPreservedWitness ==
    /\ lastOp = "stretchValues"
    /\ Len(lastArg) = 2
    /\ Less(lastArg[1], lastArg[2])
    /\ lastArg[2] = Infinity
    /\ Len(results) = 2
    /\ results[2].s = Infinity

\* C2: for every requested stretch list, repeated values and +Infinity at
\* any position included, the breakpoints handed to the quadrature primitive
\* hold no value twice: 0 once at the front, +Infinity once at the end, each
\* requested value once.
NoDuplicateBreakpoints ==
    lastOp # "none" =>
        /\ quadPoints[1] = Zero
        /\ quadPoints[Len(quadPoints)] = Infinity
        /\ \A i, j \in 1..Len(quadPoints) :
               i # j => quadPoints[i] # quadPoints[j]
        /\ {quadPoints[i] : i \in 1..Len(quadPoints)}
              = {Zero, Infinity}
                \cup {stretchUsed[i] : i \in 1..Len(stretchUsed)}

\* C3: for every configuration accepted by create(), overrides naming
\* derived quantities included, omegaM0 + omegaRad0 + omegaLambda0 + OmegaK0
\* = 1 in the constructed props, OmegaK0 being the residual of the others.
DensitiesSumToOne ==
    props # NotCreated =>
        /\ Add(Add(Add(props["omegaM0"], props["omegaRad0"]),
                   props["omegaLambda0"]), props["OmegaK0"]) = One
        /\ props["OmegaK0"]
              = Sub(Sub(Sub(One, props["omegaM0"]), props["omegaRad0"]),
                    props["omegaLambda0"])

\* The segment integrals the loop consumed are non-negative: neither
\* running sum ever decreases along the walk.
SegmentsNonNegative ==
    \A i \in 1..Len(accum) :
        /\ LessEq(IF i = 1 THEN Zero ELSE accum[i - 1].th, accum[i].th)
        /\ LessEq(IF i = 1 THEN Zero ELSE accum[i - 1].ths, accum[i].ths)

TimeNeverIncreasesWithStretch ==
    \A i, j \in 1..Len(results) :
        (/\ IsFinite(results[i].s)
         /\ Less(results[j].s, results[i].s)
         /\ Less(Zero, results[j].s))
        => LessEq(results[i].t, results[j].t)

Descending(q) == \A i \in 1..(Len(q) - 1) : LessEq(q[i + 1], q[i])

\* C4, as stated: within one result table of a model, given non-negative
\* segment integrals, t(s1) <= t(s2) for any two results with finite
\* s1 > s2 > 0.
TimeMonotone ==
    (Tabulated /\ SegmentsNonNegative) => TimeNeverIncreasesWithStretch

\* C4, amended: within one result table computed from a descending
\* stretch list on a model with h0Gy > 0, given non-negative segment
\* integrals, t(s1) <= t(s2) for any two results with finite s1 > s2 > 0.
TimeMonotoneDescending ==
    (/\ Tabulated
     /\ SegmentsNonNegative
     /\ Less(Zero, props["h0Gy"])
     /\ Descending(stretchUsed))
    => TimeNeverIncreasesWithStretch

TimeMonotoneWitness ==
    /\ lastOp = "stretchValues"
    /\ stretchUsed = <<Two, One>>
    /\ Less(Zero, props["h0Gy"])
    /\ SegmentsNonNegative
    /\ Less(results[1].t, results[2].t)

SingletonAtPresent ==
    (lastOp = "calculateExpansion" /\ lastArg = <<One>>) =>
        /\ Len(results) = 1
        /\ results[1].z = Zero
        /\ results[1].a = One
        /\ results[1].dNow = Zero
        /\ results[1].d = Zero

\* C5, as stated: calculateExpansion with the stretch list [1] returns one
\* result with z = 0, a = 1, dNow = 0, d = 0, and every returned result with
\* s = 1 has dNow = 0 and hence d, vNow and v equal to 0, whatever the
\* integration produced.
PresentEpochZero ==
    /\ SingletonAtPresent
    /\ \A i \in 1..Len(results) :
           results[i].s = One =>
               /\ results[i].dNow = Zero
               /\ results[i].d = Zero
               /\ results[i].vNow = Zero
               /\ results[i].v = Zero

\* hGy of createExpansionResults for results[i]
HGyOf(i) == Mul(results[i].h, props["kmsmpscToGyr"])

\* C5, amended: calculateExpansion with the stretch list [1] returns one
\* result with z = 0, a = 1, dNow = 0, d = 0, and every returned result with
\* s = 1 has dNow = 0 and d = 0 whatever the integration produced; vNow is 0
\* when h0Gy is finite and v is 0 when hGy = h * kmsmpscToGyr at s = 1 is
\* finite, and each is NaN otherwise.
PresentEpochForced ==
    /\ SingletonAtPresent
    /\ \A i \in 1..Len(results) :
           results[i].s = One =>
               /\ results[i].dNow = Zero
               /\ results[i].d = Zero
               /\ results[i].vNow
                     = (IF IsFinite(props["h0Gy"]) THEN Zero ELSE NaN)
               /\ results[i].v = (IF IsFinite(HGyOf(i)) THEN Zero ELSE NaN)

PresentEpochWitness ==
    /\ Tabulated
    /\ \E i \in 1..Len(results) :
           /\ results[i].s = One
           /\ AccumOf(i).th # totals.thAtOne
           /\ results[i].dNow = Zero
           /\ results[i].v = Zero

PositiveDensities ==
    /\ Less(Zero, props["omegaM0"])
    /\ Less(Zero, props["omegaRad0"])
    /\ Less(Zero, props["omegaLambda0"])

\* C6: when the caller requests the +Infinity stretch value, the result
\* emitted for it has finite, non-NaN dPar and vGen, and its running sums
\* are the precomputed totals (th = thAtInfinity, ths = thsAtInfinity), for
\* every model with positive density parameters.
InfinityResultFinite ==
    (Tabulated /\ PositiveDensities) =>
        \A i \in 1..Len(results) :
            results[i].s = Infinity =>
                /\ IsFinite(results[i].dPar)
                /\ IsFinite(results[i].vGen)
                /\ AccumOf(i).th = totals.thAtInfinity
                /\ AccumOf(i).ths = totals.thsAtInfinity

\* C7: two calls to calculateExpansion with identical inputs on the same
\* instance, with any other calculateExpansion or calculateAge calls in
\* between, return identical output; no call changes the props or the
\* caller's stretch list, and nothing is carried from one call to the next.
Idempotent ==
    /\ props = createProps(options)
    /\ lastOp # "none" => callerStretch = lastArg
    /\ (lastOp = "calculateExpansion" /\ lastArg = refArg)
           => results = refResults

IdempotentWitness ==
    /\ lastOp = "calculateExpansion"
    /\ lastArg = refArg
    /\ ~refFresh
    /\ Len(results) >= 2
    /\ results = refResults

\* The preset create() selects: the named one if recognised, else planck2018
ChosenPreset ==
    IF /\ "survey" \in DOMAIN options
       /\ options["survey"] \in {"planck2018", "planck2015", "wmap2013"}
    THEN surveyParameters[options["survey"]]
    ELSE surveyParameters["planck2018"]

ExpectedValue(k) ==
    IF k \in DOMAIN options THEN options[k]
    ELSE IF k \in DOMAIN ChosenPreset THEN ChosenPreset[k]
    ELSE physicalConstants[k]

\* C8: for every recognised parameter the value createProps uses is the
\* explicit override if the options carry the key, otherwise the chosen
\* preset's value if it has one, otherwise the built-in constant; a missing
\* or unrecognised survey key selects planck2018.
MergePrecedence ==
    props # NotCreated =>
        /\ \A k \in RecognisedKeys : props[k] = ExpectedValue(k)
        /\ "h0Gy" \notin DOMAIN options =>
               props["h0Gy"]
                 = Mul(ExpectedValue("h0"), ExpectedValue("kmsmpscToGyr"))

MergePrecedenceWitness ==
    /\ props # NotCreated
    /\ "survey" \in DOMAIN options
    /\ options["survey"] = "sdss"
    /\ "h0" \in DOMAIN options
    /\ props["h0"] = options["h0"]
    /\ props["zeq"] = surveyParameters["planck2018"]["zeq"]
    /\ props["rhoConst"] = physicalConstants["rhoConst"]

\* C9: calculateAge() returns the t of the single result of
\* calculateExpansion with stretch list [1]: both use the breakpoints
\* [0, 1, +Infinity], and the single-segment THs pass over [1, +Infinity]
\* gives t = thsAtInfinity / h0Gy.
AgeIsExpansionAtPresent ==
    lastOp = "calculateAge" =>
        /\ quadPoints = <<Zero, One, Infinity>>
        /\ age = Div(QuadSegment("THs", One, Infinity), props["h0Gy"])
        /\ refArg = <<One>> =>
               (Len(refResults) = 1 /\ refResults[1].t = age)

AgeWitness ==
    /\ lastOp = "calculateAge"
    /\ refArg = <<One>>
    /\ IsFinite(age)
    /\ age # Zero

\* C10: for every emitted point at index i, th is the sum of the TH segment
\* integrals over the first i breakpoint intervals and ths is the synthetic
\* zero plus the THs segment integrals over the intervals after the first;
\* the two segment lists are index-aligned (also when a pass has a single
\* segment), ths = 0 at the first emitted point, and no index past the end
\* of either list is read.
RunningSumsAligned ==
    lastOp # "none" =>
        \A i \in 1..Len(accum) :
            /\ accum[i].s = quadPoints[i + 1]
            /\ i <= Len(QuadSegments("TH", quadPoints))
            /\ i - 1 <= Len(QuadSegments("THs", Tail(quadPoints)))
            /\ accum[i].th = SumFirst(QuadSegments("TH", quadPoints), i)
            /\ accum[i].ths
                  = SumFirst(QuadSegments("THs", Tail(quadPoints)), i - 1)
            /\ i = 1 => accum[i].ths = Zero
            /\ ~accum[i].oob

RunningSumsWitness ==
    /\ lastOp = "stretchValues"
    /\ isInfIncluded
    /\ Len(accum) = 2
    /\ accum[2].s = Infinity
    /\ accum[2].ths = totals.thsAtInfinity
    /\ accum[2].ths # Zero

====
